---- MODULE Spec2Model ----
(***************************************************************************)
(* tree (windows-iot-cmds-extra/tree/main.cpp): the command line parser    *)
(* of wmain, the recursive traversal GetDirectoryStructure / DrawTree and  *)
(* the probe HasSubFolder.                                                 *)
(*                                                                         *)
(* Text is modelled as sequences of wchar_t code units (integers), so the  *)
(* comparisons of DrawTree's column scan, the (BYTE) casts included, are   *)
(* computed as the code computes them.  A directory is named by its node   *)
(* in the directory tree: node 0 is the current directory of wmain, and    *)
(* strPath + "\\" + cFileName names the child node with that entry.        *)
(***************************************************************************)
EXTENDS Integers, Sequences, FiniteSets, TLC

\* ------------------------------------------------------------------ bounds
MaxNodes == 3      \* entries below the current directory
MaxArgs == 2       \* argc - 1
MaxUnreadable == 1 \* directories that cannot be opened

\* ------------------------------------------------------- character codes
U251C == 9500      \* L'├'  branch
U2502 == 9474      \* L'│'  vertical bar
U2500 == 9472      \* L'─'  horizontal bar
U2514 == 9492      \* L'└'  last branch
Plus == 43         \* L'+'
Pipe == 124        \* L'|'
Minus == 45        \* L'-'
Backslash == 92    \* L'\\'
Slash == 47        \* L'/'
Blank == 32        \* L' '
Period == 46       \* L'.'
Question == 63     \* L'?'
LowerF == 102      \* L'f'
LowerA == 97       \* L'a'

Dot == <<Period>>
DotDot == <<Period, Period>>
Spacer == <<Blank>>
RootPrevLine == <<Blank, Blank, Blank, Blank, Blank, Blank, Blank, Blank, Blank, Blank>>

\* The names entry k can have: "+│<k>", or "+│.<k>" with an extension; both
\* hold the characters the column scan looks for, and the digit keeps the
\* names of one directory distinct.  Files have the name with the extension.
NameOf(k, ext) == IF ext THEN <<Plus, U2502, Period, 48 + k>> ELSE <<Plus, U2502, 48 + k>>

\* argv[1..]: "/F", "-a", "/?", "-Z", and the positional "a"
ArgSet == { <<Slash, 70>>, <<Minus, LowerA>>, <<Slash, Question>>, <<Minus, 90>>, <<LowerA>> }

\* ------------------------------------------------------------ small helpers
Range(s) == { s[i] : i \in 1..Len(s) }

RECURSIVE SeqsUpTo(_, _)
SeqsUpTo(S, n) ==
    IF n = 0 THEN { <<>> }
    ELSE LET shorter == SeqsUpTo(S, n - 1)
         IN  shorter \cup { Append(s, x) : s \in { t \in shorter : Len(t) = n - 1 }, x \in S }

\* s[j] of a NUL-terminated C string, j counted from 0
CharAt(s, j) == IF j < Len(s) THEN s[j + 1] ELSE 0

BYTE(c) == c % 256

towlower(c) == IF c \in 65..90 THEN c + 32 ELSE c

\* ---------------------------------------------------------- directory tree
\* A tree of n entries numbered in pre-order; the children of a directory are
\* enumerated in increasing number.  dots: whether the current directory
\* lists "." and ".." (the root of a drive does not).
RECURSIVE AncSelf(_, _)
AncSelf(p, k) == IF k = 0 THEN {0} ELSE {k} \cup AncSelf(p, p[k])

Shapes(n) ==
    { p \in [1..n -> 0..(n - 1)] :
        \A k \in 1..n : /\ p[k] < k
                        /\ k > 1 => p[k] \in AncSelf(p, k - 1) }

Kinds(n, p) ==
    { d \in [1..n -> BOOLEAN] : \A k \in 1..n : p[k] # 0 => d[p[k]] }

Readables(n, d) ==
    { r \in [1..n -> BOOLEAN] :
        /\ \A k \in 1..n : ~d[k] => r[k]
        /\ Cardinality({ k \in 1..n : ~r[k] }) <= MaxUnreadable }

Names(n, d) ==
    { [k \in 1..n |-> NameOf(k, t[k])] :
        t \in { t \in [1..n -> BOOLEAN] : \A k \in 1..n : ~d[k] => t[k] } }

Tree(n, p, d, nm, r, dt) ==
    [n |-> n, parent |-> p, isDir |-> d, name |-> nm, readable |-> r, dots |-> dt]

NoFs == [n |-> 0, parent |-> <<>>, isDir |-> <<>>, name |-> <<>>, readable |-> <<>>, dots |-> TRUE]

ChildrenOf(f, d) == SelectSeq([k \in 1..f.n |-> k], LAMBDA k : f.parent[k] = d)

IsReadable(f, d) == d = 0 \/ f.readable[d]

\* ------------------------------------------------- FindFirstFile / FindNextFile
\* The entries a search handle yields, as WIN32_FIND_DATA records: "." and ".."
\* first, then the children of d whose name matches the pattern.
FindData(f, k) == [cFileName |-> f.name[k], dir |-> f.isDir[k], node |-> k]

DotEntries(f, d) ==
    IF d = 0 /\ ~f.dots THEN <<>>
    ELSE << [cFileName |-> Dot, dir |-> TRUE, node |-> -1],
            [cFileName |-> DotDot, dir |-> TRUE, node |-> -1] >>

\* "*.*" matches every name; "*." matches the names without an extension
Matches(pattern, name) ==
    \/ pattern = "*.*"
    \/ pattern = "*." /\ (name \in {Dot, DotDot} \/ Period \notin Range(name))

Listing(f, d, pattern) ==
    LET children == ChildrenOf(f, d)
    IN  SelectSeq(DotEntries(f, d) \o [j \in 1..Len(children) |-> FindData(f, children[j])],
                  LAMBDA e : Matches(pattern, e.cFileName))

\* ok = FALSE is INVALID_HANDLE_VALUE: the directory cannot be opened, or
\* nothing in it matches
FindFirstFile(f, d, pattern) ==
    LET found == Listing(f, d, pattern)
    IN  IF IsReadable(f, d) /\ found # <<>>
        THEN [ok |-> TRUE, entries |-> found]
        ELSE [ok |-> FALSE, entries |-> <<>>]

\* The values FindFileData takes over the iterations of
\*   do { ... } while (FindNextFile(hFind, &FindFileData));
\* With no handle the body runs once, on what the record held before the
\* call, and FindNextFile fails.
DoWhile(h, before) == IF h.ok THEN h.entries ELSE << before >>

IsDotOrDotDot(e) == e.cFileName = Dot \/ e.cFileName = DotDot

\* what a WIN32_FIND_DATA on the stack can hold before anything writes it:
\* the directory bit set, with a name that is ".", ".." or another one, or
\* the directory bit clear
Garbage ==
    [cFileName : {Dot, DotDot, NameOf(0, FALSE)}, dir : {TRUE}, node : {-1}]
        \cup [cFileName : {NameOf(0, FALSE)}, dir : {FALSE}, node : {-1}]

Zeroed == [cFileName |-> <<>>, dir |-> FALSE, node |-> -1]

\* ------------------------------------------------------------ HasSubFolder
\* cfg.uninit is what the local FindFileData holds when the function is
\* entered.  The loop stops at the first directory that is not "." or "..".
HasSubFolder(cfg, strPath) ==
    LET hFind == FindFirstFile(cfg.fs, strPath, "*.")
        seen == DoWhile(hFind, cfg.uninit)
    IN  \E j \in 1..Len(seen) : seen[j].dir /\ ~IsDotOrDotDot(seen[j])

\* ---------------------------------------------------------------- DrawTree
\* a scan that also continues the line under a last branch
IsContinuationUnderLast(c) ==
    \/ c = U251C \/ c = U2502 \/ c = U2514
    \/ BYTE(c) = Plus \/ BYTE(c) = Pipe \/ BYTE(c) = Backslash

IsContinuation(c) ==
    c = U251C \/ c = U2502 \/ BYTE(c) = Plus \/ BYTE(c) = Pipe

\* the prefix glyph chosen without reading bUseAscii
GlyphUnicodeOnly(cfg) == U2502

\* the glyph that continues a connecting line
Glyph(cfg) == IF ~cfg.bUseAscii THEN U2502 ELSE Pipe

\* the loop over j < width - 1
Prefix(cfg, width, prevLine) ==
    [j \in 1..(width - 1) |->
        IF IsContinuation(CharAt(prevLine, j - 1)) THEN Glyph(cfg) ELSE Blank]

\* an off-by-one last-entry test
NotLastOffByOne(szArr, i) == szArr # i

\* szArr - 1 != i
NotLast(szArr, i) == szArr - 1 # i

\* str: the four connector columns (five for a file with no subfolder) and the name
Connect(cfg, notLast, drawfolder, bHasSubFolder, cFileName) ==
    IF notLast
    THEN IF drawfolder
         THEN (IF cfg.bUseAscii THEN <<Plus, Minus, Minus, Minus>>
                                ELSE <<U251C, U2500, U2500, U2500>>) \o cFileName
         ELSE IF bHasSubFolder
              THEN (IF cfg.bUseAscii THEN <<Pipe, Blank, Blank, Blank>>
                                     ELSE <<U2502, Blank, Blank, Blank>>) \o cFileName
              ELSE <<Blank, Blank, Blank, Blank, Blank>> \o cFileName
    ELSE IF drawfolder
         THEN (IF cfg.bUseAscii THEN <<Backslash, Minus, Minus, Minus>>
                                ELSE <<U2514, U2500, U2500, U2500>>) \o cFileName
         ELSE IF bHasSubFolder
              THEN (IF cfg.bUseAscii THEN <<Pipe, Blank, Blank, Blank>>
                                     ELSE <<U2502, Blank, Blank, Blank>>) \o cFileName
              ELSE <<Blank, Blank, Blank, Blank, Blank>> \o cFileName

\* a recursive call one column too wide
ChildWidthOffByOne(width) == width + 5

\* the width handed to the recursive call
ChildWidth(width) == width + 4

\* the spoofed entry appended without the arrFilesz > 0 test
WithSpacerAlways(arrFile) ==
    Append(arrFile, [cFileName |-> Spacer, dir |-> FALSE, node |-> -1])

\* arrFile after the spoofed entry of the file listing (only its cFileName is
\* written, and only the cFileName of a file entry is read)
WithSpacer(arrFile) ==
    IF Len(arrFile) > 0
    THEN Append(arrFile, [cFileName |-> Spacer, dir |-> FALSE, node |-> -1])
    ELSE arrFile

\* the INVALID_HANDLE_VALUE test left out
InvalidHandleIgnored(hFind) == FALSE

InvalidHandle(hFind) == ~hFind.ok

RECURSIVE DrawLoop(_, _, _, _, _, _, _, _)
RECURSIVE GetDirectoryStructure(_, _, _, _)

\* iterations i, i+1, ... of DrawTree's loop: the printed lines, each folder's
\* followed by what the recursive call prints
DrawLoop(cfg, strPath, arrFolder, width, prevLine, drawfolder, bHasSubFolder, i) ==
    IF ~(i < Len(arrFolder)) THEN <<>>
    ELSE LET e == arrFolder[i + 1]
             consoleOut == Prefix(cfg, width, prevLine)
                           \o Connect(cfg, NotLast(Len(arrFolder), i), drawfolder, bHasSubFolder, e.cFileName)
             line == [text |-> consoleOut, width |-> width, drawfolder |-> drawfolder,
                      strPath |-> strPath, entry |-> e.node, prevLine |-> prevLine]
         IN  << line >>
             \o (IF drawfolder
                 THEN GetDirectoryStructure(cfg, e.node, ChildWidth(width), consoleOut)
                 ELSE <<>>)
             \o DrawLoop(cfg, strPath, arrFolder, width, prevLine, drawfolder, bHasSubFolder, i + 1)

DrawTree(cfg, strPath, arrFolder, width, prevLine, drawfolder) ==
    DrawLoop(cfg, strPath, arrFolder, width, prevLine, drawfolder, HasSubFolder(cfg, strPath), 0)

\* --------------------------------------------------- GetDirectoryStructure
GetDirectoryStructure(cfg, strPath, width, prevLine) ==
    LET hFind == FindFirstFile(cfg.fs, strPath, "*.*")
        seen == DoWhile(hFind, Zeroed)
        arrFolder == SelectSeq(seen, LAMBDA e : e.dir /\ ~IsDotOrDotDot(e))
        arrFile == SelectSeq(seen, LAMBDA e : ~e.dir)
    IN  IF InvalidHandle(hFind) THEN <<>>
        ELSE (IF cfg.bShowFiles
              THEN DrawTree(cfg, strPath, WithSpacer(arrFile), width, prevLine, FALSE)
              ELSE <<>>)
             \o DrawTree(cfg, strPath, arrFolder, width, prevLine, TRUE)

\* ------------------------------------------------------------------- wmain
VARIABLES
    pc,          \* where wmain is: "parse", "root", "traverse", "probe", "exit"
    args,        \* argv[i .. argc-1], the arguments not parsed yet
    bShowFiles, bUseAscii, bSetPath,
    fs,          \* the directory tree below the current directory, as enumerated
    uninit,      \* what HasSubFolder's FindFileData held on entry during the traversal
    out,         \* the lines of the tree body written to stdout
    banner,      \* the number of banner lines written to stdout
    errs,        \* the messages written to stderr
    called,      \* GetDirectoryStructure has been called
    lastProbe,   \* wmain's call of HasSubFolder: whether it had a handle, its result
    ret          \* wmain's return value, -1 while it runs

vars == << pc, args, bShowFiles, bUseAscii, bSetPath, fs, uninit, out, banner, errs,
           called, lastProbe, ret >>

Cfg(g) == [fs |-> fs, bShowFiles |-> bShowFiles, bUseAscii |-> bUseAscii, uninit |-> g]

Msg(m, a) == [msg |-> m, arg |-> a]

IsSwitch(a) == CharAt(a, 0) = Minus \/ CharAt(a, 0) = Slash

\* the stack under a FindFileData nothing has written: any value when the
\* call reads it, of no account when FindFirstFile fills it first
StackData(f, d) == IF FindFirstFile(f, d, "*.").ok THEN { Zeroed } ELSE Garbage

Init ==
    /\ pc = "parse"
    /\ args \in SeqsUpTo(ArgSet, MaxArgs)
    /\ bShowFiles = FALSE
    /\ bUseAscii = FALSE
    /\ bSetPath = FALSE
    /\ fs = NoFs
    /\ uninit = Zeroed
    /\ out = <<>>
    /\ banner = 0
    /\ errs = <<>>
    /\ called = FALSE
    /\ lastProbe = [handle |-> TRUE, result |-> FALSE]
    /\ ret = -1

Parsing(a) == pc = "parse" /\ args # <<>> /\ a = Head(args)

\* case L'?'
ParseHelp ==
    \E a \in ArgSet :
        /\ Parsing(a) /\ IsSwitch(a) /\ towlower(CharAt(a, 1)) = Question
        /\ errs' = Append(errs, Msg("usage", <<>>))
        /\ pc' = "exit"
        /\ ret' = 0
        /\ args' = Tail(args)
        /\ UNCHANGED << bShowFiles, bUseAscii, bSetPath, fs, uninit, out, banner, called,
                        lastProbe >>

\* case L'f'
ParseShowFiles ==
    \E a \in ArgSet :
        /\ Parsing(a) /\ IsSwitch(a) /\ towlower(CharAt(a, 1)) = LowerF
        /\ bShowFiles' = TRUE
        /\ args' = Tail(args)
        /\ UNCHANGED << pc, bUseAscii, bSetPath, fs, uninit, out, banner, errs, called,
                        lastProbe, ret >>

\* case L'a'
ParseUseAscii ==
    \E a \in ArgSet :
        /\ Parsing(a) /\ IsSwitch(a) /\ towlower(CharAt(a, 1)) = LowerA
        /\ bUseAscii' = TRUE
        /\ args' = Tail(args)
        /\ UNCHANGED << pc, bShowFiles, bSetPath, fs, uninit, out, banner, errs, called,
                        lastProbe, ret >>

\* default: break
ParseDefault ==
    \E a \in ArgSet :
        /\ Parsing(a) /\ IsSwitch(a)
        /\ towlower(CharAt(a, 1)) \notin {Question, LowerF, LowerA}
        /\ args' = Tail(args)
        /\ UNCHANGED << pc, bShowFiles, bUseAscii, bSetPath, fs, uninit, out, banner, errs,
                        called, lastProbe, ret >>

\* the first positional argument
ParsePath ==
    \E a \in ArgSet :
        /\ Parsing(a) /\ ~IsSwitch(a) /\ bSetPath = FALSE
        /\ bSetPath' = TRUE
        /\ args' = Tail(args)
        /\ UNCHANGED << pc, bShowFiles, bUseAscii, fs, uninit, out, banner, errs, called,
                        lastProbe, ret >>

\* a second positional argument
ParseTooMany ==
    \E a \in ArgSet :
        /\ Parsing(a) /\ ~IsSwitch(a) /\ bSetPath # FALSE
        /\ errs' = Append(errs, Msg("Too many parameters", a))
        /\ pc' = "exit"
        /\ ret' = 0
        /\ args' = Tail(args)
        /\ UNCHANGED << bShowFiles, bUseAscii, bSetPath, fs, uninit, out, banner, called,
                        lastProbe >>

\* the end of the parse loop, and the two banner lines
Banner ==
    /\ pc = "parse" /\ args = <<>>
    /\ banner' = banner + 2
    /\ pc' = "root"
    /\ UNCHANGED << args, bShowFiles, bUseAscii, bSetPath, fs, uninit, out, errs, called,
                    lastProbe, ret >>

\* the root line; SetCurrentDirectory succeeds, or no path was given
RootLine ==
    /\ pc = "root"
    /\ banner' = banner + 1
    /\ pc' = "traverse"
    /\ UNCHANGED << args, bShowFiles, bUseAscii, bSetPath, fs, uninit, out, errs, called,
                    lastProbe, ret >>

\* SetCurrentDirectory(specifiedPath) == FALSE
InvalidPath ==
    /\ pc = "root" /\ bSetPath = TRUE
    /\ banner' = banner + 1
    /\ errs' = errs \o << Msg("Invalid path", <<>>), Msg("No subfolders exist", <<>>) >>
    /\ pc' = "exit"
    /\ ret' = 0
    /\ UNCHANGED << args, bShowFiles, bUseAscii, bSetPath, fs, uninit, out, called,
                    lastProbe >>

\* GetDirectoryStructure(strPath, 1, L"          ")
Traverse ==
    /\ pc = "traverse"
    /\ \E n \in 0..MaxNodes : \E p \in Shapes(n) : \E d \in Kinds(n, p) :
       \E nm \in Names(n, d), r \in Readables(n, d), dt \in BOOLEAN :
       \E g \in StackData(Tree(n, p, d, nm, r, dt), 0) :
        /\ fs' = Tree(n, p, d, nm, r, dt)
        /\ uninit' = g
        /\ out' = GetDirectoryStructure(
                      [fs |-> fs', bShowFiles |-> bShowFiles, bUseAscii |-> bUseAscii, uninit |-> g],
                      0, 1, RootPrevLine)
    /\ called' = TRUE
    /\ pc' = "probe"
    /\ UNCHANGED << args, bShowFiles, bUseAscii, bSetPath, banner, errs,
                    lastProbe, ret >>

\* if (HasSubFolder(strPath) == FALSE) ...; return 0
Probe ==
    /\ pc = "probe"
    /\ \E g \in StackData(fs, 0) :
        LET r == HasSubFolder(Cfg(g), 0)
        IN  /\ lastProbe' = [handle |-> FindFirstFile(fs, 0, "*.").ok, result |-> r]
            /\ errs' = IF r = FALSE THEN Append(errs, Msg("No subfolders exist", <<>>)) ELSE errs
    /\ pc' = "exit"
    /\ ret' = 0
    /\ UNCHANGED << args, bShowFiles, bUseAscii, bSetPath, fs, uninit, out, banner, called >>

Next ==
    \/ ParseHelp
    \/ ParseShowFiles
    \/ ParseUseAscii
    \/ ParseDefault
    \/ ParsePath
    \/ ParseTooMany
    \/ Banner
    \/ RootLine
    \/ InvalidPath
    \/ Traverse
    \/ Probe

Spec == Init /\ [][Next]_vars

\* =================================================================== claims
\* GetDirectoryStructure has returned to wmain: out is the whole tree body
\* (the rest of wmain leaves it unchanged).
Returned == called /\ pc = "probe"

\* What the directory tree says, independently of the traversal.
Folders(d) == SelectSeq(ChildrenOf(fs, d), LAMBDA k : fs.isDir[k])

Files(d) == SelectSeq(ChildrenOf(fs, d), LAMBDA k : ~fs.isDir[k])

IsDirectory(d) == d = 0 \/ (d \in 1..fs.n /\ fs.isDir[d])

\* the directories from below the root down to d
RECURSIVE PathTo(_)
PathTo(d) == IF d \in 1..fs.n THEN Append(PathTo(fs.parent[d]), d) ELSE <<>>

\* the traversal enumerates d: d and the directories above it can be opened
Visited(d) == \A k \in Range(PathTo(d)) : fs.readable[k]

\* d and the directories below it
Below(d) == { k \in 0..fs.n : k = d \/ d \in Range(PathTo(k)) }

IsLastFolder(k) == Folders(fs.parent[k])[Len(Folders(fs.parent[k]))] = k

LinesOf(d, drawfolder) ==
    SelectSeq(out, LAMBDA l : l.strPath = d /\ l.drawfolder = drawfolder)

\* the connector and the name of a line: what follows the width - 1 prefix columns
AfterPrefix(l) == SubSeq(l.text, l.width, Len(l.text))

BranchSeg == IF bUseAscii THEN <<Plus, Minus, Minus, Minus>> ELSE <<U251C, U2500, U2500, U2500>>

LastSeg == IF bUseAscii THEN <<Backslash, Minus, Minus, Minus>> ELSE <<U2514, U2500, U2500, U2500>>

BarSeg == IF bUseAscii THEN <<Pipe, Blank, Blank, Blank>> ELSE <<U2502, Blank, Blank, Blank>>

BlankSeg == <<Blank, Blank, Blank, Blank, Blank>>

\* C1: in every DrawTree call that draws folders, on the folder list of a
\* directory, all entries but the last are printed with the branch connector
\* and the last one, and only it, with the last-branch connector; the folders
\* appear in enumeration order, and every folder line comes before all lines
\* of that folder's subtree, which come before the lines of its next siblings.
C1_FolderConnectors ==
    Returned =>
        /\ \A d \in 0..fs.n : IsDirectory(d) /\ Visited(d) =>
              LET F == Folders(d)
                  L == LinesOf(d, TRUE)
              IN  /\ Len(L) = Len(F)
                  /\ \A j \in 1..Len(F) :
                        /\ L[j].entry = F[j]
                        /\ AfterPrefix(L[j]) =
                              (IF j < Len(F) THEN BranchSeg ELSE LastSeg) \o fs.name[F[j]]
        /\ \A a \in 1..Len(out) : out[a].drawfolder =>
              \A b \in 1..Len(out) : out[b].strPath \in Below(out[a].entry) =>
                  /\ a < b
                  /\ \A c \in 1..Len(out) :
                        c > a /\ out[c].strPath = out[a].strPath => b < c

\* a folder list of two, the first with a line below it
C1_Witness ==
    /\ Returned
    /\ \E a, b, c \in 1..Len(out) :
        /\ a < b /\ b < c
        /\ out[a].drawfolder /\ out[c].drawfolder
        /\ out[a].strPath = out[c].strPath
        /\ out[b].strPath = out[a].entry

\* the prefix an explicit list of "has a following sibling" flags gives, one
\* flag per directory above the line
RECURSIVE PrefixOfFlags(_)
PrefixOfFlags(flags) ==
    IF flags = <<>> THEN <<>>
    ELSE << (IF Head(flags) THEN (IF bUseAscii THEN Pipe ELSE U2502) ELSE Blank),
            Blank, Blank, Blank >> \o PrefixOfFlags(Tail(flags))

SiblingFlags(d) == [k \in 1..Len(PathTo(d)) |-> ~IsLastFolder(PathTo(d)[k])]

IsSpacerLine(l) == ~l.drawfolder /\ l.entry = -1

\* where the lines of kind drawfolder of directory d stand in out
Positions(d, drawfolder) ==
    { a \in 1..Len(out) : out[a].strPath = d /\ out[a].drawfolder = drawfolder }

\* C3: with the file listing on, a directory with files prints one line per
\* file in enumeration order, then one spacer line, then its folder lines; no
\* file or spacer line of a directory follows one of its folder lines and no
\* line is printed below the spacer; a directory without files prints no
\* spacer; with the file listing off no file line and no spacer is printed.
C3_FilesThenSpacerThenFolders ==
    Returned =>
        /\ \A d \in 0..fs.n : IsDirectory(d) /\ Visited(d) =>
              LET L == LinesOf(d, FALSE)
                  F == Files(d)
              IN  IF bShowFiles /\ Len(F) > 0
                  THEN /\ Len(L) = Len(F) + 1
                       /\ \A j \in 1..Len(F) :
                             /\ L[j].entry = F[j]
                             /\ \E seg \in {BarSeg, BlankSeg} : AfterPrefix(L[j]) = seg \o fs.name[F[j]]
                       /\ IsSpacerLine(L[Len(L)])
                       /\ \E seg \in {BarSeg, BlankSeg} : AfterPrefix(L[Len(L)]) = seg \o Spacer
                       /\ \A a \in Positions(d, FALSE), b \in Positions(d, TRUE) : a < b
                  ELSE L = <<>>
        /\ \A a \in 1..Len(out) : IsDirectory(out[a].strPath)

\* a file line, the spacer and a folder line of one directory
C3_Witness ==
    /\ Returned /\ bShowFiles
    /\ \E a \in 1..(Len(out) - 2) :
        /\ ~out[a].drawfolder /\ out[a].entry # -1
        /\ IsSpacerLine(out[a + 1])
        /\ out[a + 2].drawfolder
        /\ out[a + 2].strPath = out[a].strPath

\* C4 (as claimed): every file line and spacer line carries the vertical bar
\* connector iff the folder list of its directory is not empty, and the five
\* blanks otherwise.
C4_BarIffFolders ==
    Returned =>
        \A a \in 1..Len(out) : ~out[a].drawfolder =>
            SubSeq(AfterPrefix(out[a]), 1, 4) =
                (IF Folders(out[a].strPath) # <<>> THEN BarSeg ELSE SubSeq(BlankSeg, 1, 4))

NoSubfolders == Msg("No subfolders exist", <<>>)

\* C5 (as claimed): when wmain returns after the traversal, "No subfolders
\* exist" has been written iff the tree body has no folder line, and never
\* more than once.
C5_MessageIffNoFolderLine ==
    pc = "exit" /\ called =>
        /\ (NoSubfolders \in Range(errs)) <=> (\A a \in 1..Len(out) : ~out[a].drawfolder)
        /\ Cardinality({ j \in 1..Len(errs) : errs[j] = NoSubfolders }) <= 1

\* an unrecognised switch, or a second positional argument after the path
IsMalformed(a) ==
    \/ IsSwitch(a) /\ towlower(CharAt(a, 1)) \notin {Question, LowerF, LowerA}
    \/ ~IsSwitch(a) /\ bSetPath = TRUE

\* C6 (as claimed): the step that parses an unrecognised switch or a second
\* positional argument writes a message to stderr and returns 0 from wmain
\* with no traversal done: GetDirectoryStructure not called, no tree line
\* printed (nothing runs after the return).
C6_MalformedStopsTheRun ==
    [][ pc = "parse" /\ args # <<>> /\ IsMalformed(Head(args)) =>
            /\ pc' = "exit" /\ ret' = 0
            /\ Len(errs') = Len(errs) + 1
            /\ ~called' /\ out' = <<>> ]_vars

\* the tree with directory u readable and empty
ReadableAndEmpty(f, u) ==
    [f EXCEPT !.readable[u] = TRUE,
              !.parent = [k \in 1..f.n |-> IF f.parent[k] = u THEN -1 ELSE f.parent[k]]]

\* C7: a subdirectory that cannot be opened has its own line printed and no
\* line below it, and the run prints exactly the lines it prints when that
\* subdirectory is readable and empty.
C7_UnreadableIsEmpty ==
    Returned =>
        \A u \in 1..fs.n : fs.isDir[u] /\ ~fs.readable[u] /\ Visited(fs.parent[u]) =>
            /\ \E a \in 1..Len(out) : out[a].drawfolder /\ out[a].entry = u
            /\ \A a \in 1..Len(out) : out[a].strPath # u
            /\ out = GetDirectoryStructure(
                         [fs |-> ReadableAndEmpty(fs, u), bShowFiles |-> bShowFiles,
                          bUseAscii |-> bUseAscii, uninit |-> uninit],
                         0, 1, RootPrevLine)

\* an unreadable directory with entries in it and a sibling after it, files listed
C7_Witness ==
    /\ Returned /\ bShowFiles
    /\ \E u \in 1..fs.n :
        /\ fs.isDir[u] /\ ~fs.readable[u] /\ Visited(fs.parent[u])
        /\ ChildrenOf(fs, u) # <<>>
        /\ ~IsLastFolder(u)

ToAsciiChar(c) ==
    CASE c = U251C -> Plus
      [] c = U2500 -> Minus
      [] c = U2514 -> Backslash
      [] c = U2502 -> Pipe
      [] OTHER -> c

\* the line with the glyphs of its prefix and connector columns replaced
ToAsciiLine(l) ==
    [l EXCEPT !.text = [j \in 1..Len(l.text) |->
                           IF j <= l.width + 3 THEN ToAsciiChar(l.text[j]) ELSE l.text[j]],
              !.prevLine = [j \in 1..Len(l.prevLine) |->
                           IF j <= l.width - 1 THEN ToAsciiChar(l.prevLine[j]) ELSE l.prevLine[j]]]

SameButAscii(unicode, ascii) ==
    /\ Len(unicode) = Len(ascii)
    /\ \A a \in 1..Len(unicode) :
        /\ ToAsciiLine(unicode[a]).text = ascii[a].text
        /\ unicode[a].width = ascii[a].width
        /\ unicode[a].entry = ascii[a].entry

\* C8: for the same tree and the same bShowFiles, the lines printed in ASCII
\* mode are the lines printed in Unicode mode with the glyphs of the prefix
\* and connector columns replaced: as many lines, in the same order, with the
\* same names at the same columns.
C8_AsciiIsUnicodeReplaced ==
    Returned =>
        LET other == GetDirectoryStructure(
                         [fs |-> fs, bShowFiles |-> bShowFiles, bUseAscii |-> ~bUseAscii,
                          uninit |-> uninit],
                         0, 1, RootPrevLine)
        IN  IF bUseAscii THEN SameButAscii(other, out) ELSE SameButAscii(out, other)

\* an ASCII run with files listed that printed a line below a folder with a
\* following sibling, in a tree with a name that holds a glyph
C8_Witness ==
    /\ Returned /\ bUseAscii /\ bShowFiles
    /\ \E a \in 1..Len(out) :
        /\ out[a].width = 5 /\ out[a].text[1] = Pipe /\ ~out[a].drawfolder
        /\ U2502 \in Range(out[a].text)

\* C9 (as claimed): a call of HasSubFolder whose FindFirstFile yields no
\* handle returns FALSE.
C9_NoHandleGivesFalse ==
    ~lastProbe.handle => lastProbe.result = FALSE

\* the printed line of folder k
LineOfFolder(k) == CHOOSE l \in Range(out) : l.drawfolder /\ l.entry = k

\* C10: the column scan of a DrawTree call reads only columns of the
\* prefix and connector of prevLine, the printed line of the folder being
\* drawn: never a character of its name, never at or past its end; for the
\* root no column is read; so the prefix is the one scanned from prevLine cut
\* before the name.
C10_ScanStaysBeforeTheName ==
    Returned =>
        \A a \in 1..Len(out) :
            LET l == out[a]
            IN  IF l.strPath = 0
                THEN l.width - 1 = 0 /\ l.prevLine = RootPrevLine
                ELSE /\ \E b \in 1..Len(out) : out[b].drawfolder /\ out[b].entry = l.strPath
                     /\ l.prevLine = LineOfFolder(l.strPath).text
                     /\ l.width - 1 <= LineOfFolder(l.strPath).width + 3
                     /\ l.width - 1 < Len(l.prevLine)
                     /\ SubSeq(l.text, 1, l.width - 1) =
                            Prefix(Cfg(uninit), l.width,
                                   SubSeq(l.prevLine, 1, LineOfFolder(l.strPath).width + 3))

\* a line below a folder whose name holds '+' and '│'
C10_Witness ==
    /\ Returned
    /\ \E a \in 1..Len(out) :
        /\ out[a].strPath # 0
        /\ Plus \in Range(fs.name[out[a].strPath])

====
